---------------------------- MODULE Spec2Model ----------------------------
(***************************************************************************)
(* A model of the MicroTools backend (src/server.js, the file the          *)
(* Dockerfile starts, and the later draft src/unnamed/part_001, which adds *)
(* the watermark, remove-bg and resize endpoints and carries its own       *)
(* /api/file-convert handler).                                             *)
(*                                                                         *)
(* Four specifications share the variables:                                *)
(*   SpecQuality  the quality computation of POST /api/image-compress      *)
(*   SpecPay      the payment endpoints (create-order, verify-payment)     *)
(*   SpecArchive  the archive endpoints (image-compress, file-compress)    *)
(*   Spec         the tool endpoints (pdf-compress, file-convert,          *)
(*                watermark, remove-bg, resize), requests in flight        *)
(*                together                                                 *)
(*                                                                         *)
(* JavaScript strings that the code parses or compares are sequences of    *)
(* one-character strings; NaN and undefined are explicit values.           *)
(***************************************************************************)
EXTENDS Integers, Sequences, FiniteSets, TLC

VARIABLES
  qField,       \* req.body.quality of the image-compress request under study
  qPassed,      \* the quality value handed to sharp(...).toFormat, or NotYet
  env,          \* process.env: RAZORPAY_KEY_ID, RAZORPAY_KEY_SECRET
  razorpay,     \* the module-level gateway client: "null" or "client"
  payReq,       \* the payment request being served (pc, body)
  payResp,      \* the response sent to the last finished payment request
  gatewayCalls, \* number of razorpay.orders.create calls made by the process
  req,          \* the upload requests: id -> request record
  files,        \* the paths that exist in TMP_DIR
  unlinkQ,      \* fs.unlink calls issued and not yet executed: <<id, path>>
  clock,        \* Date.now()
  nextUpload,   \* the next file name multer generates
  crashed       \* the process died of an uncaught exception or rejection

vars == <<qField, qPassed, env, razorpay, payReq, payResp, gatewayCalls,
          req, files, unlinkQ, clock, nextUpload, crashed>>

qVars    == <<qField, qPassed>>
payVars  == <<env, razorpay, payReq, payResp, gatewayCalls>>
pipeVars == <<req, files, unlinkQ, clock, nextUpload, crashed>>

-----------------------------------------------------------------------------
(* Bounds of the model *)

MaxQLen == 3      \* longest quality string tried
MaxReq == 2       \* concurrent requests to the tool endpoints in one run
MaxArchiveReq == 1 \* requests to the archive endpoints in one run
MaxFiles == 2     \* files in one image-compress batch
MaxClock == 1     \* Date.now() ranges over 0..MaxClock
MaxCalls == 2     \* gateway calls counted before the counter saturates

-----------------------------------------------------------------------------
(* JavaScript values *)

\* A value is undefined, a string (s), a number (n) or NaN.
Undefined == [t |-> "undefined", s |-> <<>>, n |-> 0]
Str(s) == [t |-> "string", s |-> s, n |-> 0]
Num(n) == [t |-> "number", s |-> <<>>, n |-> n]
NaN == [t |-> "nan", s |-> <<>>, n |-> 0]

\* JavaScript truthiness: undefined, "", 0 and NaN are falsy.
Truthy(v) ==
  \/ v.t = "string" /\ v.s # <<>>
  \/ v.t = "number" /\ v.n # 0

\* a || b
OrElse(a, b) == IF Truthy(a) THEN a ELSE b

Digits == <<"0", "1", "2", "3", "4", "5", "6", "7", "8", "9">>
IsDigit(c) == \E d \in 1..10 : Digits[d] = c
DigitVal(c) == (CHOOSE d \in 1..10 : Digits[d] = c) - 1
IsSpace(c) == c = " "

RECURSIVE SkipSpaces(_)
SkipSpaces(s) ==
  IF s # <<>> /\ IsSpace(Head(s)) THEN SkipSpaces(Tail(s)) ELSE s

\* the value of the longest prefix of digits of s, continuing from acc
RECURSIVE DigitPrefix(_, _)
DigitPrefix(s, acc) ==
  IF s # <<>> /\ IsDigit(Head(s))
  THEN DigitPrefix(Tail(s), 10 * acc + DigitVal(Head(s)))
  ELSE acc

\* parseInt(s, 10): leading white space, an optional sign, then the longest
\* run of decimal digits; NaN when that run is empty.
ParseInt(s) ==
  LET t == SkipSpaces(s)
      neg == t # <<>> /\ Head(t) = "-"
      u == IF t # <<>> /\ Head(t) \in {"-", "+"} THEN Tail(t) ELSE t
  IN IF u = <<>> \/ ~IsDigit(Head(u)) THEN NaN
     ELSE Num((IF neg THEN -1 ELSE 1) * DigitPrefix(u, 0))

\* Math.min and Math.max of a number and a possibly-NaN number
MathMin(a, x) == IF x.t = "nan" THEN NaN ELSE Num(IF a < x.n THEN a ELSE x.n)
MathMax(a, x) == IF x.t = "nan" THEN NaN ELSE Num(IF a > x.n THEN a ELSE x.n)

-----------------------------------------------------------------------------
(* POST /api/image-compress: the quality handed to the codec *)

QMin == 10
QMax == 100
QDefault == <<"8", "0">>

\* Math.max(10, Math.min(100, parseInt(req.body.quality || "80", 10)))
Quality(field) ==
  MathMax(QMin, MathMin(QMax, ParseInt(OrElse(field, Str(QDefault)).s)))

QChars == {"0", "1", "5", "9", "-", " ", "a"}

RECURSIVE StringsUpTo(_, _)
StringsUpTo(chars, n) ==
  IF n = 0 THEN {<<>>}
  ELSE LET shorter == StringsUpTo(chars, n - 1)
       IN shorter \cup {<<c>> \o s : c \in chars, s \in {x \in shorter : Len(x) = n - 1}}

QualityInputs == {Undefined} \cup {Str(s) : s \in StringsUpTo(QChars, MaxQLen)}

NotYet == Undefined

-----------------------------------------------------------------------------
(* The payment endpoints *)

\* toString() + concatenation: the operands here are strings
Concat(a, b) == a \o b

HexDigits == <<"0", "1", "2", "3", "4", "5", "6", "7",
               "8", "9", "a", "b", "c", "d", "e", "f">>
HexBase == 16

CodeTable == <<"|", "o", "p", "k", "j", "1", "2", " ", "a", "A">>
Code(c) == IF \E i \in 1..Len(CodeTable) : CodeTable[i] = c
           THEN CHOOSE i \in 1..Len(CodeTable) : CodeTable[i] = c
           ELSE Len(CodeTable) + 1

RECURSIVE Mix(_, _)
Mix(s, acc) ==
  IF s = <<>> THEN acc
  ELSE Mix(Tail(s), (acc * 7 + Code(Head(s)) * 13 + 5) % (HexBase * HexBase))

\* crypto.createHmac("sha256", key).update(msg).digest("hex"): a keyed digest
\* of the message, written in lower-case hexadecimal. The digest is a small
\* keyed checksum here: two hexadecimal digits instead of sixty-four.
HmacHex(key, msg) ==
  LET d == Mix(msg, Mix(key, 1))
  IN <<HexDigits[(d \div HexBase) + 1], HexDigits[(d % HexBase) + 1]>>

\* lines 356-362: the client exists only when both credentials are set
RazorpayInitEither(e) ==
  IF Truthy(e.keyId) \/ Truthy(e.keySecret) THEN "client" ELSE "null"
RazorpayInit(e) ==
  IF Truthy(e.keyId) /\ Truthy(e.keySecret) THEN "client" ELSE "null"

\* Number(v) of undefined, a number or a string of digits, sign and spaces
RECURSIVE TrimRight(_)
TrimRight(s) ==
  IF s # <<>> /\ IsSpace(s[Len(s)]) THEN TrimRight(SubSeq(s, 1, Len(s) - 1)) ELSE s

AllDigits(s) == s # <<>> /\ \A i \in 1..Len(s) : IsDigit(s[i])

ToNumber(v) ==
  CASE v.t = "undefined" -> NaN
    [] v.t = "number" -> v
    [] v.t = "nan" -> NaN
    [] v.t = "string" ->
         LET t == TrimRight(SkipSpaces(v.s))
             neg == t # <<>> /\ Head(t) = "-"
             u == IF t # <<>> /\ Head(t) \in {"-", "+"} THEN Tail(t) ELSE t
         IN IF t = <<>> THEN Num(0)
            ELSE IF AllDigits(u) THEN Num((IF neg THEN -1 ELSE 1) * DigitPrefix(u, 0))
            ELSE NaN

Body(amount, oid, pid, sig) ==
  [amount |-> amount, razorpay_order_id |-> oid,
   razorpay_payment_id |-> pid, razorpay_signature |-> sig]
NoBody == Body(Undefined, Undefined, Undefined, Undefined)

Resp(ep, success, verified, error, amount) ==
  [ep |-> ep, success |-> success, verified |-> verified,
   error |-> error, amount |-> amount]
NoResp == Resp("none", FALSE, FALSE, "", 0)

\* parsed: express.json() has set req.body; it is FALSE for a request with
\* no JSON body under a body parser that leaves req.body undefined
PayIdle == [pc |-> "idle", ep |-> "none", body |-> NoBody, parsed |-> TRUE, calls |-> 0]

\* lines 370-373: the amount the handler accepts, or NaN for "Invalid amount"
OrderAmount(body) ==
  LET amount == ToNumber(OrElse(body.amount, Num(0)))
  IN IF amount.t = "nan" \/ amount.n = 0 \/ amount.n <= 0 THEN NaN ELSE amount

\* lines 391-417: the verdict of /api/verify-payment
VerifySignatureUnguarded(body, secret) ==
  body.razorpay_signature.s =
    HmacHex(secret.s, Concat(Concat(body.razorpay_order_id.s, <<"|">>),
                             body.razorpay_payment_id.s))
VerifySignature(body, secret) ==
  IF \/ ~Truthy(body.razorpay_order_id)
     \/ ~Truthy(body.razorpay_payment_id)
     \/ ~Truthy(body.razorpay_signature)
     \/ ~Truthy(secret)
  THEN FALSE
  ELSE LET text == Concat(Concat(body.razorpay_order_id.s, <<"|">>),
                          body.razorpay_payment_id.s)
           expectedSignature == HmacHex(secret.s, text)
       IN expectedSignature = body.razorpay_signature.s

(* the requests tried *)
EnvValues == {Undefined, Str(<<>>), Str(<<"k">>), Str(<<"j">>)}
Amounts == {Undefined, Num(0), Num(5), Num(-5), Str(<<>>), Str(<<"1", "2">>),
            Str(<<"-", "1">>), Str(<<"a">>), Str(<<"1", "a">>), Str(<<" ", "2">>)}
OrderIds == {Undefined, Str(<<>>), Str(<<"o", "1">>), Str(<<"o", "2">>)}
PaymentIds == {Undefined, Str(<<"p", "1">>), Str(<<"p", "2">>)}

ToUpper(s) ==
  [i \in 1..Len(s) |->
     CASE s[i] = "a" -> "A" [] s[i] = "b" -> "B" [] s[i] = "c" -> "C"
       [] s[i] = "d" -> "D" [] s[i] = "e" -> "E" [] s[i] = "f" -> "F"
       [] OTHER -> s[i]]

GoodSignatures ==
  {HmacHex(k.s, Concat(Concat(o.s, <<"|">>), p.s)) :
     k \in {e \in EnvValues : Truthy(e)}, o \in OrderIds, p \in PaymentIds}
Signatures ==
  {Undefined, Str(<<>>)}
    \cup {Str(h) : h \in GoodSignatures}
    \cup {Str(ToUpper(h)) : h \in GoodSignatures}
    \cup {Str(h \o <<" ">>) : h \in GoodSignatures}

PayBodies ==
  {Body(a, Undefined, Undefined, Undefined) : a \in Amounts}
    \cup {Body(Undefined, o, p, g) : o \in OrderIds, p \in PaymentIds, g \in Signatures}

QuietQuality == qField = Undefined /\ qPassed = NotYet
QuietPay ==
  /\ env = [keyId |-> Undefined, keySecret |-> Undefined]
  /\ razorpay = "null"
  /\ payReq = PayIdle
  /\ payResp = NoResp
  /\ gatewayCalls = 0
QuietPipe ==
  /\ req = <<>>
  /\ files = {}
  /\ unlinkQ = {}
  /\ clock = 0
  /\ nextUpload = 1
  /\ crashed = FALSE

\* process start: the environment is read once
PInit ==
  /\ env \in [keyId : EnvValues, keySecret : EnvValues]
  /\ razorpay = RazorpayInit(env)
  /\ payReq = PayIdle
  /\ payResp = NoResp
  /\ gatewayCalls = 0
  /\ QuietQuality
  /\ QuietPipe

\* a request arrives at one of the two endpoints, with a JSON body that
\* express.json() parsed into req.body, or with none: the body parser then
\* sets req.body to {} or leaves it undefined, depending on its version,
\* which the repository does not pin
PayArrive ==
  /\ payReq.pc = "idle"
  /\ \E ep \in {"create-order", "verify-payment"}, b \in PayBodies, parsed \in BOOLEAN :
       /\ ep = "create-order" =>
            b.razorpay_order_id = Undefined /\ b.razorpay_payment_id = Undefined
              /\ b.razorpay_signature = Undefined
       /\ ep = "verify-payment" => b.amount = Undefined
       /\ ~parsed => b = NoBody
       /\ payReq' = [pc |-> "received", ep |-> ep, body |-> b,
                     parsed |-> parsed, calls |-> 0]
  /\ payResp' = NoResp
  /\ UNCHANGED <<env, razorpay, gatewayCalls, qVars, pipeVars>>

Saturate(n) == IF n < MaxCalls THEN n + 1 ELSE n

\* POST /api/create-order up to the await (lines 364-379); req.body.amount
\* on line 370 throws when req.body is undefined, and the catch block
\* (lines 382-385) answers
CreateOrder ==
  /\ payReq.pc = "received" /\ payReq.ep = "create-order"
  /\ IF razorpay = "null"
     THEN /\ payResp' = Resp("create-order", FALSE, FALSE, "Razorpay not configured", 0)
          /\ payReq' = [payReq EXCEPT !.pc = "responded"]
          /\ UNCHANGED gatewayCalls
     ELSE IF ~payReq.parsed
     THEN /\ payResp' = Resp("create-order", FALSE, FALSE, "Order creation failed", 0)
          /\ payReq' = [payReq EXCEPT !.pc = "responded"]
          /\ UNCHANGED gatewayCalls
     ELSE LET amount == OrderAmount(payReq.body)
          IN IF amount.t = "nan"
             THEN /\ payResp' = Resp("create-order", FALSE, FALSE, "Invalid amount", 0)
                  /\ payReq' = [payReq EXCEPT !.pc = "responded"]
                  /\ UNCHANGED gatewayCalls
             ELSE /\ gatewayCalls' = Saturate(gatewayCalls)
                  /\ payReq' = [payReq EXCEPT !.pc = "gateway", !.calls = @ + 1]
                  /\ UNCHANGED payResp
  /\ UNCHANGED <<env, razorpay, qVars, pipeVars>>

\* the gateway answers or the call throws (lines 375-385)
GatewayReply ==
  /\ payReq.pc = "gateway"
  /\ \E ok \in BOOLEAN :
       payResp' = IF ok
                  THEN Resp("create-order", TRUE, FALSE, "",
                            OrderAmount(payReq.body).n * 100)
                  ELSE Resp("create-order", FALSE, FALSE, "Order creation failed", 0)
  /\ payReq' = [payReq EXCEPT !.pc = "responded"]
  /\ UNCHANGED <<env, razorpay, gatewayCalls, qVars, pipeVars>>

\* POST /api/verify-payment (lines 389-422); line 395 reads req.body || {}
VerifyPayment ==
  /\ payReq.pc = "received" /\ payReq.ep = "verify-payment"
  /\ payResp' = Resp("verify-payment", FALSE,
                     VerifySignature(IF payReq.parsed THEN payReq.body ELSE NoBody,
                                     env.keySecret), "", 0)
  /\ payReq' = [payReq EXCEPT !.pc = "responded"]
  /\ UNCHANGED <<env, razorpay, gatewayCalls, qVars, pipeVars>>

\* the response has been sent; the next request can be looked at
PayFinish ==
  /\ payReq.pc = "responded"
  /\ payReq' = PayIdle
  /\ payResp' = NoResp
  /\ UNCHANGED <<env, razorpay, gatewayCalls, qVars, pipeVars>>

PNext == PayArrive \/ CreateOrder \/ GatewayReply \/ VerifyPayment \/ PayFinish

SpecPay == PInit /\ [][PNext]_vars

-----------------------------------------------------------------------------
(* POST /api/image-compress: the quality computation on its own *)

QInit ==
  /\ qField \in QualityInputs
  /\ qPassed = NotYet
  /\ QuietPay
  /\ QuietPipe

\* the handler computes the quality and hands it to the codec
ImageCompressQuality ==
  /\ qPassed = NotYet
  /\ qPassed' = Quality(qField)
  /\ UNCHANGED <<qField, payVars, pipeVars>>

\* the next request arrives with another quality field
NextQualityRequest ==
  /\ qPassed # NotYet
  /\ qField' \in QualityInputs
  /\ qPassed' = NotYet
  /\ UNCHANGED <<payVars, pipeVars>>

QNext == ImageCompressQuality \/ NextQualityRequest

SpecQuality == QInit /\ [][QNext]_vars

-----------------------------------------------------------------------------
(* Claims about the quality computation and the payment endpoints *)

\* what the field asks for, read as the claim reads it
Requested(field) == IF field.t = "undefined" THEN NaN ELSE ParseInt(field.s)

\* C4: whatever the quality field holds, the value handed to the codec is an
\* integer between 10 and 100: 10 for a request below 10, 100 for one above
\* 100, the request itself in between, and 80 when the field is absent or
\* not a number.
C4_QualityClamped ==
  qPassed # NotYet =>
    /\ qPassed.t = "number"
    /\ QMin <= qPassed.n /\ qPassed.n <= QMax
    /\ LET r == Requested(qField)
       IN CASE r.t = "nan" -> qPassed.n = 80
            [] r.n < QMin -> qPassed.n = QMin
            [] r.n > QMax -> qPassed.n = QMax
            [] OTHER -> qPassed.n = r.n

Configured == Truthy(env.keyId) /\ Truthy(env.keySecret)

\* C7: a verify-payment request is answered verified:true exactly when all
\* three fields and the secret are present and the signature equals, character
\* for character, the hex HMAC of order_id + "|" + payment_id under the
\* secret; every other request is answered verified:false.
C7_VerifiedIffSignatureMatches ==
  (payReq.pc = "responded" /\ payReq.ep = "verify-payment") =>
    /\ payResp.ep = "verify-payment"
    /\ payResp.verified <=>
         /\ Truthy(env.keySecret)
         /\ Truthy(payReq.body.razorpay_order_id)
         /\ Truthy(payReq.body.razorpay_payment_id)
         /\ payReq.body.razorpay_signature.t = "string"
         /\ payReq.body.razorpay_signature.s =
              HmacHex(env.keySecret.s,
                      payReq.body.razorpay_order_id.s \o <<"|">>
                        \o payReq.body.razorpay_payment_id.s)

\* a matching signature was accepted
C7_Witness ==
  /\ payReq.pc = "responded" /\ payReq.ep = "verify-payment"
  /\ payResp.verified

\* a signature that differs from the digest in case only was refused
C7_WitnessRefused ==
  /\ payReq.pc = "responded" /\ payReq.ep = "verify-payment"
  /\ ~payResp.verified
  /\ Truthy(env.keySecret)
  /\ Truthy(payReq.body.razorpay_order_id)
  /\ Truthy(payReq.body.razorpay_payment_id)
  /\ payReq.body.razorpay_signature.s #
       HmacHex(env.keySecret.s,
               payReq.body.razorpay_order_id.s \o <<"|">>
                 \o payReq.body.razorpay_payment_id.s)
  /\ ToUpper(payReq.body.razorpay_signature.s) =
       ToUpper(HmacHex(env.keySecret.s,
                       payReq.body.razorpay_order_id.s \o <<"|">>
                         \o payReq.body.razorpay_payment_id.s))

\* C8: when the key id or the key secret is not configured, the gateway
\* client stays unset, no gateway call is ever made, and every create-order
\* request is answered {success:false, error:"Razorpay not configured"}.
C8_NotConfigured ==
  ~Configured =>
    /\ razorpay = "null"
    /\ gatewayCalls = 0
    /\ payReq.pc # "gateway"
    /\ (payReq.pc = "responded" /\ payReq.ep = "create-order") =>
         payResp = Resp("create-order", FALSE, FALSE, "Razorpay not configured", 0)

\* one credential is set, the other is not, and an order with a valid amount
\* was refused
C8_Witness ==
  /\ ~Configured
  /\ Truthy(env.keyId) \/ Truthy(env.keySecret)
  /\ payReq.pc = "responded" /\ payReq.ep = "create-order"
  /\ OrderAmount(payReq.body).t = "number"
  /\ payResp.error = "Razorpay not configured"

\* the amount field converts to a number strictly greater than 0
PositiveAmount(v) == ToNumber(v).t = "number" /\ ToNumber(v).n > 0

\* C13: with both credentials set, a create-order request calls the gateway
\* at most once, and only when its amount converts to a number above 0; any
\* other amount is answered "Invalid amount" with no gateway call; a gateway
\* call that succeeds is answered with the order, for the amount times 100,
\* and one that fails is answered "Order creation failed".
C13_GatewayOnlyForPositiveAmount ==
  (Configured /\ payReq.ep = "create-order") =>
    /\ payReq.calls <= 1
    /\ payReq.calls = 1 => PositiveAmount(payReq.body.amount)
    /\ payReq.pc = "gateway" => payReq.calls = 1
    /\ payReq.pc = "responded" =>
         IF PositiveAmount(payReq.body.amount)
         THEN /\ payReq.calls = 1
              /\ \/ payResp = Resp("create-order", TRUE, FALSE, "",
                                   ToNumber(payReq.body.amount).n * 100)
                 \/ payResp = Resp("create-order", FALSE, FALSE,
                                   "Order creation failed", 0)
         ELSE /\ payReq.calls = 0
              /\ payResp = Resp("create-order", FALSE, FALSE, "Invalid amount", 0)

-----------------------------------------------------------------------------
(* The temp-file pipeline: strings and paths *)

\* A file name or a path is a sequence of pieces whose concatenation is the
\* JavaScript string; an original name is <<stem, extension with its dot>>.
Absent == "(undefined)"
NoPath == <<>>

\* String.prototype.toLowerCase on the strings the requests carry
ToLowerCase(s) ==
  CASE s = ".PNG" -> ".png"
    [] s = ".JPG" -> ".jpg"
    [] s = ".JPEG" -> ".jpeg"
    [] s = ".DOCX" -> ".docx"
    [] s = "PDF" -> "pdf"
    [] s = "JPG" -> "jpg"
    [] OTHER -> s

\* ext.slice(1) and ext.replace(".", ""): the extension without its dot
DropDot(e) ==
  CASE e = ".png" -> "png" [] e = ".PNG" -> "PNG"
    [] e = ".jpg" -> "jpg" [] e = ".JPG" -> "JPG"
    [] e = ".jpeg" -> "jpeg" [] e = ".JPEG" -> "JPEG"
    [] e = ".webp" -> "webp"
    [] e = ".mp4" -> "mp4" [] e = ".mp3" -> "mp3" [] e = ".wav" -> "wav"
    [] e = ".docx" -> "docx" [] e = ".DOCX" -> "DOCX"
    [] e = ".txt" -> "txt" [] e = ".exe" -> "exe" [] e = ".pdf" -> "pdf"
    [] OTHER -> e

\* path.extname(name)
Extname(name) == name[2]
\* path.basename(name, ext): ext is removed only when the name ends with it
Basename(name, ext) == IF name[2] = ext THEN <<name[1]>> ELSE name

\* String(Date.now())
Stamp(t) == IF t = 0 THEN "0" ELSE IF t = 1 THEN "1" ELSE IF t = 2 THEN "2" ELSE "3"
\* the name multer gives the n-th upload: random hexadecimal, no extension
UploadName(n) ==
  IF n = 1 THEN "u1" ELSE IF n = 2 THEN "u2" ELSE IF n = 3 THEN "u3"
  ELSE IF n = 4 THEN "u4" ELSE IF n = 5 THEN "u5" ELSE "u6"
UploadPath(n) == <<UploadName(n)>>

-----------------------------------------------------------------------------
(* The temp-file pipeline: requests *)

Reqs == DOMAIN req

NewReq ==
  [ep |-> "none", pc |-> "new", ups |-> <<>>, field |-> Absent, i |-> 0,
   out |-> NoPath, status |-> 0, resp |-> "open", entries |-> <<>>,
   archive |-> "none", calls |-> <<>>, toolFailed |-> FALSE, created |-> {},
   touched |-> {}, del |-> {}, reading |-> {}, unhandled |-> FALSE]

Upload(n, name) == [path |-> UploadPath(n), name |-> name]
Call(exe, arg, out) == [exe |-> exe, arg |-> arg, out |-> out]
Entry(name, src, path, st) == [name |-> name, src |-> src, path |-> path, st |-> st]

PipeInit(n) ==
  /\ req = [r \in 1..n |-> NewReq]
  /\ files = {}
  /\ unlinkQ = {}
  /\ clock = 0
  /\ nextUpload = 1
  /\ crashed = FALSE
  /\ QuietQuality
  /\ QuietPay

\* safeUnlink(p) for each p of ps, called by request r with record q:
\* fs.unlink is issued now and runs later
SafeUnlink(q, ps) == [q EXCEPT !.del = @ \cup ps, !.touched = @ \cup ps]
Issue(r, ps) == unlinkQ \cup {<<r, p>> : p \in ps}

\* res.status(code).send/end: the first end of the response is what the client gets
Respond(q, code) ==
  IF q.resp = "open"
  THEN [q EXCEPT !.resp = "complete", !.status = IF q.status = 0 THEN code ELSE q.status]
  ELSE q

(* the requests tried *)
ImageNames == {<<"a", ".png">>, <<"b", ".JPEG">>, <<"c", ".txt">>}
PlainName == <<"a", ".png">>

RECURSIVE SeqsUpTo(_, _)
SeqsUpTo(S, n) ==
  IF n = 0 THEN {<<>>}
  ELSE LET shorter == SeqsUpTo(S, n - 1)
       IN shorter \cup {Append(s, x) : s \in {y \in shorter : Len(y) = n - 1}, x \in S}

\* multer stores the uploaded parts under fresh names before the handler runs
Arrive(r, ep, names, field) ==
  /\ ~crashed
  /\ req[r].pc = "new"
  /\ \A k \in Reqs : k < r => req[k].pc # "new"
  /\ LET ups == [k \in 1..Len(names) |-> Upload(nextUpload + k - 1, names[k])]
         paths == {ups[k].path : k \in 1..Len(names)}
     IN /\ req' = [req EXCEPT ![r] =
                     [NewReq EXCEPT !.ep = ep, !.pc = "handler", !.ups = ups,
                                    !.field = field, !.created = paths,
                                    !.touched = paths]]
        /\ files' = files \cup paths
        /\ nextUpload' = nextUpload + Len(names)
  /\ UNCHANGED <<unlinkQ, clock, crashed, qVars, payVars>>

\* an issued fs.unlink runs; a missing file is only logged (lines 30-34)
UnlinkLands(r, p) ==
  /\ ~crashed
  /\ <<r, p>> \in unlinkQ
  /\ unlinkQ' = unlinkQ \ {<<r, p>>}
  /\ files' = files \ {p}
  /\ UNCHANGED <<req, clock, nextUpload, crashed, qVars, payVars>>

-----------------------------------------------------------------------------
(* The archiver: entries added with archive.file are read later *)

\* archive.file(path, {name}): the entry is queued, its file is read later
ArchiveFile(q, path, name) ==
  [q EXCEPT !.entries = Append(@, Entry(name, "file", path, "queued")),
            !.reading = @ \cup {path}, !.touched = @ \cup {path}]

\* archive.append(buf, {name}): the bytes are already in memory
ArchiveAppend(q, name) ==
  [q EXCEPT !.entries = Append(@, Entry(name, "buffer", NoPath, "done"))]

Unresolved(q) == {k \in 1..Len(q.entries) : q.entries[k].st \in {"queued", "statted"}}
Written(q) == \E k \in 1..Len(q.entries) : q.entries[k].st = "done"

\* the archiver stats a queued file; a missing file is a warning and the
\* entry is dropped
ArchiveStat(r) ==
  /\ ~crashed
  /\ req[r].archive \in {"open", "finalized"}
  /\ \E k \in 1..Len(req[r].entries) :
       /\ req[r].entries[k].st = "queued"
       /\ \A j \in 1..(k - 1) : req[r].entries[j].st # "queued"
       /\ LET q == req[r]
              e == q.entries[k]
          IN req' = [req EXCEPT ![r] =
                       IF e.path \in files
                       THEN [q EXCEPT !.entries[k].st = "statted"]
                       ELSE [q EXCEPT !.entries[k].st = "dropped",
                                      !.reading = @ \ {e.path}]]
  /\ UNCHANGED <<files, unlinkQ, clock, nextUpload, crashed, qVars, payVars>>

\* archive.on("error", ...) (server.js lines 92-95, 152-155); the handlers
\* of part_001 (lines 75-76, 111-112) register no such listener
HasErrorListener(ep) == ep \in {"image-compress", "file-compress"}

\* the archiver opens and reads a statted file into the response; when the
\* file is gone the archive emits 'error'. With a listener the response is
\* ended, and the promise finalize() returned, if it has been called, is
\* rejected with nobody listening; with no listener the emit throws
ArchiveRead(r) ==
  /\ ~crashed
  /\ req[r].archive \in {"open", "finalized"}
  /\ \E k \in 1..Len(req[r].entries) :
       /\ req[r].entries[k].st = "statted"
       /\ \A j \in 1..(k - 1) : req[r].entries[j].st \notin {"queued", "statted"}
       /\ LET q == req[r]
              e == q.entries[k]
          IN IF e.path \in files
             THEN /\ req' = [req EXCEPT ![r] =
                               [q EXCEPT !.entries[k].st = "done",
                                         !.reading = @ \ {e.path}]]
                  /\ UNCHANGED crashed
             ELSE IF HasErrorListener(q.ep)
             THEN /\ req' = [req EXCEPT ![r] =
                               [Respond(q, IF Written(q) THEN 200 ELSE 500)
                                  EXCEPT !.entries[k].st = "error",
                                         !.archive = "error",
                                         !.reading = @ \ {e.path},
                                         !.pc = IF q.archive = "finalized"
                                                THEN "done" ELSE q.pc,
                                         !.unhandled = q.archive = "finalized"]]
                  /\ crashed' = (q.archive = "finalized")
             ELSE /\ req' = [req EXCEPT ![r] =
                               [q EXCEPT !.entries[k].st = "error",
                                         !.archive = "error",
                                         !.reading = @ \ {e.path},
                                         !.pc = "done",
                                         !.unhandled = TRUE]]
                  /\ crashed' = TRUE
  /\ UNCHANGED <<files, unlinkQ, clock, nextUpload, qVars, payVars>>

\* every entry is written: the archive ends, the response with it, and the
\* promise of finalize() resolves (lines 126, 160-162)
ArchiveEnd(r) ==
  /\ ~crashed
  /\ req[r].archive = "finalized"
  /\ Unresolved(req[r]) = {}
  /\ LET q == [Respond(req[r], 200) EXCEPT !.archive = "ended", !.pc = "done"]
         mine == {q.ups[k].path : k \in 1..Len(q.ups)}
     IN IF q.ep \in {"file-compress", "file-compress-draft"}
        THEN /\ req' = [req EXCEPT ![r] = SafeUnlink(q, mine)]
             /\ unlinkQ' = Issue(r, mine)
        ELSE /\ req' = [req EXCEPT ![r] = q]
             /\ UNCHANGED unlinkQ
  /\ UNCHANGED <<files, clock, nextUpload, crashed, qVars, payVars>>

-----------------------------------------------------------------------------
(* POST /api/image-compress (src/server.js lines 71-132) *)

SharpFormats == {".jpg", ".jpeg", ".png", ".webp"}

\* the name of the recompressed entry (lines 99-113)
CompressedName(originalname) ==
  LET ext == ToLowerCase(Extname(originalname))
      base == Basename(originalname, ext)
      targetFormat == IF ext = ".jpg" \/ ext = ".jpeg" THEN "jpeg" ELSE DropDot(ext)
  IN base \o <<"-compressed.", IF targetFormat = "jpeg" THEN "jpg" ELSE targetFormat>>

\* lines 75-97: the request is refused or the archive is piped to the response
ImageCompress(r) ==
  /\ ~crashed
  /\ req[r].pc = "handler" /\ req[r].ep = "image-compress"
  /\ req' = [req EXCEPT ![r] =
               IF Len(@.ups) = 0
               THEN [Respond(@, 400) EXCEPT !.pc = "done"]
               ELSE [@ EXCEPT !.archive = "open", !.pc = "loop", !.i = 1]]
  /\ UNCHANGED <<files, unlinkQ, clock, nextUpload, crashed, qVars, payVars>>

\* lines 98-117, 121-126: one turn of the loop up to its await, or finalize()
ImageCompressLoop(r) ==
  /\ ~crashed
  /\ req[r].pc = "loop" /\ req[r].ep = "image-compress"
  /\ LET q == req[r]
     IN IF q.i > Len(q.ups)
        THEN /\ req' = [req EXCEPT ![r] =
                          [q EXCEPT !.pc = "archiving",
                                    !.archive = IF @ = "open" THEN "finalized" ELSE @]]
             /\ UNCHANGED unlinkQ
        ELSE LET file == q.ups[q.i]
                 ext == ToLowerCase(Extname(file.name))
             IN IF ext \in SharpFormats
                THEN /\ req' = [req EXCEPT ![r] =
                                  [q EXCEPT !.pc = "sharp",
                                            !.calls = Append(@, Call("sharp", ext, NoPath)),
                                            !.reading = @ \cup {file.path}]]
                     /\ UNCHANGED unlinkQ
                ELSE /\ req' = [req EXCEPT ![r] =
                                  [SafeUnlink(ArchiveFile(q, file.path, file.name),
                                              {file.path})
                                     EXCEPT !.i = @ + 1]]
                     /\ unlinkQ' = Issue(r, {file.path})
  /\ UNCHANGED <<files, clock, nextUpload, crashed, qVars, payVars>>

\* lines 107-123: sharp resolves with the buffer or rejects; either way the
\* upload is unlinked in the finally block
ImageCompressSharpDone(r, ok) ==
  /\ ~crashed
  /\ req[r].pc = "sharp" /\ req[r].ep = "image-compress"
  /\ LET q == [req[r] EXCEPT !.reading = @ \ {req[r].ups[req[r].i].path}]
         file == q.ups[q.i]
         added == IF ok
                  THEN ArchiveAppend(q, CompressedName(file.name))
                  ELSE ArchiveFile(q, file.path, file.name)
     IN /\ req' = [req EXCEPT ![r] =
                     [SafeUnlink(added, {file.path}) EXCEPT !.i = @ + 1, !.pc = "loop"]]
        /\ unlinkQ' = Issue(r, {file.path})
  /\ UNCHANGED <<files, clock, nextUpload, crashed, qVars, payVars>>

-----------------------------------------------------------------------------
(* POST /api/file-compress (src/server.js lines 135-164) *)

FileCompress(r) ==
  /\ ~crashed
  /\ req[r].pc = "handler" /\ req[r].ep = "file-compress"
  /\ req' = [req EXCEPT ![r] =
               IF Len(@.ups) = 0
               THEN [Respond(@, 400) EXCEPT !.pc = "done"]
               ELSE [ArchiveFile(@, @.ups[1].path, @.ups[1].name)
                       EXCEPT !.archive = "finalized", !.pc = "archiving"]]
  /\ UNCHANGED <<files, unlinkQ, clock, nextUpload, crashed, qVars, payVars>>

-----------------------------------------------------------------------------
(* POST /api/image-compress and /api/file-compress as src/unnamed/part_001
   has them (lines 69-116) *)

\* part_001 lines 81-89: `${base}-compressed${ext}`, ext in lower case
CompressedNameDraft(originalname) ==
  LET ext == ToLowerCase(Extname(originalname))
      base == Basename(originalname, ext)
  IN base \o <<"-compressed", ext>>

\* part_001 line 86: ext === ".jpg" ? "jpeg" : ext.slice(1)
SharpFormatDraft(ext) == IF ext = ".jpg" THEN "jpeg" ELSE DropDot(ext)

\* part_001 lines 70-78: the request is refused or the archive is piped to
\* the response
ImageCompressDraft(r) ==
  /\ ~crashed
  /\ req[r].pc = "handler" /\ req[r].ep = "image-compress-draft"
  /\ req' = [req EXCEPT ![r] =
               IF Len(@.ups) = 0
               THEN [Respond(@, 400) EXCEPT !.pc = "done"]
               ELSE [@ EXCEPT !.archive = "open", !.pc = "loop", !.i = 1]]
  /\ UNCHANGED <<files, unlinkQ, clock, nextUpload, crashed, qVars, payVars>>

\* part_001 lines 80-87, 96: every file is handed to sharp, whatever its
\* extension; after the last one finalize() is called
ImageCompressDraftLoop(r) ==
  /\ ~crashed
  /\ req[r].pc = "loop" /\ req[r].ep = "image-compress-draft"
  /\ LET q == req[r]
     IN IF q.i > Len(q.ups)
        THEN req' = [req EXCEPT ![r] =
                       [q EXCEPT !.pc = "archiving",
                                 !.archive = IF @ = "open" THEN "finalized" ELSE @]]
        ELSE LET file == q.ups[q.i]
                 ext == ToLowerCase(Extname(file.name))
             IN req' = [req EXCEPT ![r] =
                          [q EXCEPT !.pc = "sharp",
                                    !.calls = Append(@,
                                       Call("sharp", SharpFormatDraft(ext), NoPath)),
                                    !.reading = @ \cup {file.path}]]
  /\ UNCHANGED <<files, unlinkQ, clock, nextUpload, crashed, qVars, payVars>>

\* part_001 lines 85-93: sharp resolves and the buffer is appended, or it
\* rejects and the upload is queued; either way the upload is unlinked
ImageCompressDraftSharpDone(r, ok) ==
  /\ ~crashed
  /\ req[r].pc = "sharp" /\ req[r].ep = "image-compress-draft"
  /\ LET q == [req[r] EXCEPT !.reading = @ \ {req[r].ups[req[r].i].path}]
         file == q.ups[q.i]
         added == IF ok
                  THEN ArchiveAppend(q, CompressedNameDraft(file.name))
                  ELSE ArchiveFile(q, file.path, file.name)
     IN /\ req' = [req EXCEPT ![r] =
                     [SafeUnlink(added, {file.path}) EXCEPT !.i = @ + 1, !.pc = "loop"]]
        /\ unlinkQ' = Issue(r, {file.path})
  /\ UNCHANGED <<files, clock, nextUpload, crashed, qVars, payVars>>

\* part_001 lines 104-116
FileCompressDraft(r) ==
  /\ ~crashed
  /\ req[r].pc = "handler" /\ req[r].ep = "file-compress-draft"
  /\ req' = [req EXCEPT ![r] =
               IF Len(@.ups) = 0
               THEN [Respond(@, 400) EXCEPT !.pc = "done"]
               ELSE [ArchiveFile(@, @.ups[1].path, @.ups[1].name)
                       EXCEPT !.archive = "finalized", !.pc = "archiving"]]
  /\ UNCHANGED <<files, unlinkQ, clock, nextUpload, crashed, qVars, payVars>>

-----------------------------------------------------------------------------
ArchiveArrivals(r) ==
  \/ \E names \in SeqsUpTo(ImageNames, MaxFiles),
        ep \in {"image-compress", "image-compress-draft"} :
       Arrive(r, ep, names, Absent)
  \/ \E names \in SeqsUpTo({PlainName}, 1),
        ep \in {"file-compress", "file-compress-draft"} :
       Arrive(r, ep, names, Absent)

ArchiveInit == PipeInit(MaxArchiveReq)

ArchiveNext ==
  \/ \E r \in Reqs : ArchiveArrivals(r)
  \/ \E r \in Reqs, p \in {x[2] : x \in unlinkQ} : UnlinkLands(r, p)
  \/ \E r \in Reqs : ArchiveStat(r)
  \/ \E r \in Reqs : ArchiveRead(r)
  \/ \E r \in Reqs : ArchiveEnd(r)
  \/ \E r \in Reqs : ImageCompress(r)
  \/ \E r \in Reqs : ImageCompressLoop(r)
  \/ \E r \in Reqs, ok \in BOOLEAN : ImageCompressSharpDone(r, ok)
  \/ \E r \in Reqs : FileCompress(r)
  \/ \E r \in Reqs : ImageCompressDraft(r)
  \/ \E r \in Reqs : ImageCompressDraftLoop(r)
  \/ \E r \in Reqs, ok \in BOOLEAN : ImageCompressDraftSharpDone(r, ok)
  \/ \E r \in Reqs : FileCompressDraft(r)

SpecArchive == ArchiveInit /\ [][ArchiveNext]_vars

-----------------------------------------------------------------------------
(* Streaming a file on disk to the response *)

\* an external tool or the codec has run for request q: on success it has
\* written `written`; on failure it may leave a partial file there
ToolRan(q, ok, leaves, written) ==
  IF ok \/ leaves
  THEN [q EXCEPT !.created = @ \cup {written}, !.touched = @ \cup {written},
                 !.toolFailed = ~ok]
  ELSE [q EXCEPT !.toolFailed = TRUE]
FilesAfter(ok, leaves, written) ==
  IF ok \/ leaves THEN files \cup {written} ELSE files

\* const stream = fs.createReadStream(path); stream.pipe(res);
\* stream.on("close", ...) (server.js lines 217-223, 312-317, 333-338)
CreateReadStream(q, path) ==
  [q EXCEPT !.out = path, !.reading = @ \cup {path}, !.touched = @ \cup {path},
            !.pc = "stream"]

\* res.download(path, callback) (part_001 lines 204-207, 215-218, 368-371)
Download(q, path) ==
  [q EXCEPT !.out = path, !.reading = @ \cup {path}, !.touched = @ \cup {path},
            !.pc = "download"]

\* the stream opens its file; when the file is missing it emits 'error',
\* and no handler of server.js listens for it
StreamOpen(r) ==
  /\ ~crashed
  /\ req[r].pc = "stream"
  /\ IF req[r].out \in files
     THEN /\ req' = [req EXCEPT ![r].pc = "piping"]
          /\ UNCHANGED crashed
     ELSE /\ req' = [req EXCEPT ![r].pc = "done", ![r].unhandled = TRUE,
                                ![r].reading = @ \ {req[r].out}]
          /\ crashed' = TRUE
  /\ UNCHANGED <<files, unlinkQ, clock, nextUpload, qVars, payVars>>

\* the file is piped to its end: pipe() ends the response on the stream's
\* 'end'; nothing is unlinked yet
StreamEnd(r) ==
  /\ ~crashed
  /\ req[r].pc = "piping"
  /\ req' = [req EXCEPT ![r] =
               [Respond(@, 200) EXCEPT !.reading = @ \ {req[r].out}, !.pc = "ended"]]
  /\ UNCHANGED <<files, unlinkQ, clock, nextUpload, crashed, qVars, payVars>>

\* in a later turn of the event loop 'close' is emitted and its listener
\* unlinks the upload and the output
StreamClose(r) ==
  /\ ~crashed
  /\ req[r].pc = "ended"
  /\ LET q == [req[r] EXCEPT !.pc = "done"]
         both == {q.ups[1].path, q.out}
     IN /\ req' = [req EXCEPT ![r] = SafeUnlink(q, both)]
        /\ unlinkQ' = Issue(r, both)
  /\ UNCHANGED <<files, clock, nextUpload, crashed, qVars, payVars>>

\* res.download finds its file and starts sending, or calls back with the
\* error; the callback unlinks and sends nothing
DownloadOpen(r) ==
  /\ ~crashed
  /\ req[r].pc = "download"
  /\ IF req[r].out \in files
     THEN /\ req' = [req EXCEPT ![r].pc = "sending"]
          /\ UNCHANGED unlinkQ
     ELSE LET q == [req[r] EXCEPT !.reading = @ \ {req[r].out}, !.pc = "done"]
              both == {q.ups[1].path, q.out}
          IN /\ req' = [req EXCEPT ![r] = SafeUnlink(q, both)]
             /\ unlinkQ' = Issue(r, both)
  /\ UNCHANGED <<files, clock, nextUpload, crashed, qVars, payVars>>

\* the download is sent and the callback unlinks the upload and the output
DownloadDone(r) ==
  /\ ~crashed
  /\ req[r].pc = "sending"
  /\ LET q == [Respond(req[r], 200) EXCEPT !.reading = @ \ {req[r].out}, !.pc = "done"]
         both == {q.ups[1].path, q.out}
     IN /\ req' = [req EXCEPT ![r] = SafeUnlink(q, both)]
        /\ unlinkQ' = Issue(r, both)
  /\ UNCHANGED <<files, clock, nextUpload, crashed, qVars, payVars>>

-----------------------------------------------------------------------------
(* POST /api/pdf-compress (src/server.js lines 167-231) *)

\* settingMap[level] || "/ebook" (lines 168-173)
PdfSetting(level) ==
  CASE level = "low" -> "/screen"
    [] level = "medium" -> "/ebook"
    [] level = "high" -> "/printer"
    [] OTHER -> "/ebook"

\* compressPdfWithGhostscript(inputPath, outputPath, level = "medium"):
\* the gs invocation; an argument that is not passed takes the default
CompressPdfWithGhostscript(inputPath, outputPath, level) ==
  Call("gs", PdfSetting(IF level = Absent THEN "medium" ELSE level), outputPath)

\* lines 200-209: the handler reads level and calls the function without it
PdfCompress(r) ==
  /\ ~crashed
  /\ req[r].pc = "handler" /\ req[r].ep = "pdf-compress"
  /\ IF Len(req[r].ups) = 0
     THEN /\ req' = [req EXCEPT ![r] = [Respond(@, 400) EXCEPT !.pc = "done"]]
          /\ UNCHANGED clock
     ELSE \E now \in clock..MaxClock :
            LET q == req[r]
                level == IF q.field \in {Absent, ""} THEN "medium" ELSE q.field
                inputPath == q.ups[1].path
                outputPath == <<"compressed-", Stamp(now), ".pdf">>
            IN /\ req' = [req EXCEPT ![r] =
                            [q EXCEPT !.out = outputPath, !.pc = "gs",
                                      !.calls = Append(@,
                                         CompressPdfWithGhostscript(inputPath, outputPath, Absent))]]
               /\ clock' = now
  /\ UNCHANGED <<files, unlinkQ, nextUpload, crashed, qVars, payVars>>

\* lines 209-229: gs exits; the output is streamed, or both files are
\* unlinked and the request is answered 500
PdfCompressGsDone(r, ok, leaves) ==
  /\ ~crashed
  /\ req[r].pc = "gs" /\ req[r].ep = "pdf-compress"
  /\ LET q == ToolRan(req[r], ok, leaves, req[r].out)
         both == {q.ups[1].path, q.out}
     IN /\ files' = FilesAfter(ok, leaves, q.out)
        /\ IF ok
           THEN /\ req' = [req EXCEPT ![r] = CreateReadStream(q, q.out)]
                /\ UNCHANGED unlinkQ
           ELSE /\ req' = [req EXCEPT ![r] =
                             [Respond(SafeUnlink(q, both), 500) EXCEPT !.pc = "done"]]
                /\ unlinkQ' = Issue(r, both)
  /\ UNCHANGED <<clock, nextUpload, crashed, qVars, payVars>>

\* part_001 lines 140-147: the handler of that file reads no level
PdfCompressDraft(r) ==
  /\ ~crashed
  /\ req[r].pc = "handler" /\ req[r].ep = "pdf-compress-draft"
  /\ IF Len(req[r].ups) = 0
     THEN /\ req' = [req EXCEPT ![r] = [Respond(@, 400) EXCEPT !.pc = "done"]]
          /\ UNCHANGED clock
     ELSE \E now \in clock..MaxClock :
            LET q == req[r]
                input == q.ups[1].path
                output == <<"compressed-", Stamp(now), ".pdf">>
            IN /\ req' = [req EXCEPT ![r] =
                            [q EXCEPT !.out = output, !.pc = "gs",
                                      !.calls = Append(@,
                                         CompressPdfWithGhostscript(input, output, Absent))]]
               /\ clock' = now
  /\ UNCHANGED <<files, unlinkQ, nextUpload, crashed, qVars, payVars>>

\* part_001 lines 146-159: gs exits; the output is streamed, or the input
\* alone is unlinked and the request is answered 500
PdfCompressDraftGsDone(r, ok, leaves) ==
  /\ ~crashed
  /\ req[r].pc = "gs" /\ req[r].ep = "pdf-compress-draft"
  /\ LET q == ToolRan(req[r], ok, leaves, req[r].out)
         input == q.ups[1].path
     IN /\ files' = FilesAfter(ok, leaves, q.out)
        /\ IF ok
           THEN /\ req' = [req EXCEPT ![r] = CreateReadStream(q, q.out)]
                /\ UNCHANGED unlinkQ
           ELSE /\ req' = [req EXCEPT ![r] =
                             [Respond(SafeUnlink(q, {input}), 500) EXCEPT !.pc = "done"]]
                /\ unlinkQ' = Issue(r, {input})
  /\ UNCHANGED <<clock, nextUpload, crashed, qVars, payVars>>

-----------------------------------------------------------------------------
(* POST /api/file-convert (src/server.js lines 234-353 and the draft,
   src/unnamed/part_001 lines 163-227) *)

imageTypes == {"jpg", "jpeg", "png", "webp"}
avTypes == {"mp4", "mp3", "wav"}
docTypes == {"doc", "docx", "ppt", "pptx", "xls", "xlsx", "odt", "odp", "ods", "txt"}
draftImageTargets == {"jpg", "png", "webp"}

\* server.js lines 285, 302, 321, 342: the branch taken for (ext, target)
Route(ext, target) ==
  IF ext \in imageTypes /\ target \in imageTypes THEN "image"
  ELSE IF ext \in avTypes /\ target \in avTypes THEN "av"
  ELSE IF target = "pdf" /\ ext \in docTypes THEN "doc"
  ELSE "unsupported"

\* part_001 lines 192, 202, 212, 222
RouteDraft(ext, target) ==
  IF ext \in imageTypes /\ target \in draftImageTargets THEN "image"
  ELSE IF ext \in avTypes /\ target \in avTypes THEN "av"
  ELSE IF target = "pdf" THEN "doc"
  ELSE "unsupported"

\* soffice --convert-to pdf --outdir outDir inputPath writes
\* <outDir>/<base name of inputPath>.pdf (server.js lines 243-262)
ConvertWithLibreOffice(inputPath) == inputPath \o <<".pdf">>

\* the pc a branch waits in
Waits(route) == IF route = "image" THEN "sharp" ELSE IF route = "av" THEN "ffmpeg" ELSE "soffice"
Exe(route) == IF route = "image" THEN "sharp" ELSE IF route = "av" THEN "ffmpeg" ELSE "soffice"

\* server.js lines 268-346 up to the first await
FileConvert(r) ==
  /\ ~crashed
  /\ req[r].pc = "handler" /\ req[r].ep = "file-convert"
  /\ IF Len(req[r].ups) = 0
     THEN /\ req' = [req EXCEPT ![r] = [Respond(@, 400) EXCEPT !.pc = "done"]]
          /\ UNCHANGED <<clock, unlinkQ>>
     ELSE \E now \in clock..MaxClock :
            LET q == req[r]
                target == ToLowerCase(IF q.field = Absent THEN "" ELSE q.field)
                inputPath == q.ups[1].path
                origName == q.ups[1].name
                ext == DropDot(ToLowerCase(Extname(origName)))
                baseName == Basename(origName, Extname(origName))
                outputPath == baseName \o <<"-", Stamp(now), ".", target>>
                route == Route(ext, target)
            IN /\ clock' = now
               /\ IF route = "unsupported"
                  THEN /\ req' = [req EXCEPT ![r] =
                                    [Respond(SafeUnlink(q, {inputPath}), 400)
                                       EXCEPT !.pc = "done"]]
                       /\ unlinkQ' = Issue(r, {inputPath})
                  ELSE /\ req' = [req EXCEPT ![r] =
                                    [q EXCEPT !.pc = Waits(route),
                                              !.out = outputPath,
                                              !.calls = Append(@,
                                                 Call(Exe(route), target,
                                                      IF route = "av" THEN outputPath
                                                      ELSE NoPath))]]
                       /\ UNCHANGED unlinkQ
  /\ UNCHANGED <<files, nextUpload, crashed, qVars, payVars>>

\* part_001 lines 181-222 up to the first await; req.body.target.toLowerCase()
\* throws outside the try block when the field is absent
FileConvertDraft(r) ==
  /\ ~crashed
  /\ req[r].pc = "handler" /\ req[r].ep = "file-convert-draft"
  /\ IF Len(req[r].ups) = 0
     THEN /\ req' = [req EXCEPT ![r] = [Respond(@, 400) EXCEPT !.pc = "done"]]
          /\ UNCHANGED <<clock, crashed>>
     ELSE IF req[r].field = Absent
     THEN /\ req' = [req EXCEPT ![r].pc = "done", ![r].unhandled = TRUE]
          /\ crashed' = TRUE
          /\ UNCHANGED clock
     ELSE \E now \in clock..MaxClock :
            LET q == req[r]
                target == ToLowerCase(q.field)
                input == q.ups[1].path
                ext == DropDot(Extname(q.ups[1].name))
                base == Basename(q.ups[1].name, Extname(q.ups[1].name))
                output == base \o <<"-", Stamp(now), ".", target>>
                route == RouteDraft(ext, target)
            IN /\ clock' = now
               /\ UNCHANGED crashed
               /\ req' = [req EXCEPT ![r] =
                            IF route = "unsupported"
                            THEN [Respond(q, 200) EXCEPT !.pc = "done"]
                            ELSE [q EXCEPT !.pc = Waits(route),
                                           !.out = output,
                                           !.calls = Append(@,
                                              Call(Exe(route), target,
                                                   IF route = "av" THEN output
                                                   ELSE NoPath))]]
  /\ UNCHANGED <<files, unlinkQ, nextUpload, qVars, payVars>>

\* the codec resolves with the buffer, which is sent, or rejects: either way
\* the upload is unlinked (server.js lines 288-299, 347-351; part_001
\* lines 193-198, 223-226)
FileConvertSharpDone(r, ok) ==
  /\ ~crashed
  /\ req[r].pc = "sharp" /\ req[r].ep \in {"file-convert", "file-convert-draft"}
  /\ LET q == [req[r] EXCEPT !.toolFailed = ~ok]
         inputPath == q.ups[1].path
     IN /\ req' = [req EXCEPT ![r] =
                     [Respond(SafeUnlink(q, {inputPath}), IF ok THEN 200 ELSE 500)
                        EXCEPT !.pc = "done"]]
        /\ unlinkQ' = Issue(r, {inputPath})
  /\ UNCHANGED <<files, clock, nextUpload, crashed, qVars, payVars>>

\* how each file sends a file on disk
Send(q, path) ==
  IF q.ep = "file-convert" THEN CreateReadStream(q, path) ELSE Download(q, path)

\* ffmpeg exits: the output is sent, or the catch block unlinks the input
\* alone (server.js lines 304-318, 347-351; part_001 lines 203-208, 223-226)
FileConvertFfmpegDone(r, ok, leaves) ==
  /\ ~crashed
  /\ req[r].pc = "ffmpeg"
  /\ LET q == ToolRan(req[r], ok, leaves, req[r].out)
         inputPath == q.ups[1].path
     IN /\ files' = FilesAfter(ok, leaves, q.out)
        /\ IF ok
           THEN /\ req' = [req EXCEPT ![r] = Send(q, q.out)]
                /\ UNCHANGED unlinkQ
           ELSE /\ req' = [req EXCEPT ![r] =
                             [Respond(SafeUnlink(q, {inputPath}), 500)
                                EXCEPT !.pc = "done"]]
                /\ unlinkQ' = Issue(r, {inputPath})
  /\ UNCHANGED <<clock, nextUpload, crashed, qVars, payVars>>

\* soffice exits: the handler sends <baseName>.pdf, or the catch block
\* unlinks the input alone (server.js lines 324-339, 347-351; part_001
\* lines 213-219, 223-226)
FileConvertSofficeDone(r, ok, leaves) ==
  /\ ~crashed
  /\ req[r].pc = "soffice"
  /\ LET inputPath == req[r].ups[1].path
         origName == req[r].ups[1].name
         baseName == Basename(origName, Extname(origName))
         produced == ConvertWithLibreOffice(inputPath)
         q == ToolRan(req[r], ok, leaves, produced)
         outputPath == baseName \o <<".pdf">>
     IN /\ files' = FilesAfter(ok, leaves, produced)
        /\ IF ok
           THEN /\ req' = [req EXCEPT ![r] = Send(q, outputPath)]
                /\ UNCHANGED unlinkQ
           ELSE /\ req' = [req EXCEPT ![r] =
                             [Respond(SafeUnlink(q, {inputPath}), 500)
                                EXCEPT !.pc = "done"]]
                /\ unlinkQ' = Issue(r, {inputPath})
  /\ UNCHANGED <<clock, nextUpload, crashed, qVars, payVars>>

-----------------------------------------------------------------------------
(* POST /api/watermark, /api/remove-bg, /api/resize
   (src/unnamed/part_001 lines 331-395) *)

\* lines 357-366
Watermark(r) ==
  /\ ~crashed
  /\ req[r].pc = "handler" /\ req[r].ep = "watermark"
  /\ IF Len(req[r].ups) = 0
     THEN /\ req' = [req EXCEPT ![r] = [Respond(@, 400) EXCEPT !.pc = "done"]]
          /\ UNCHANGED clock
     ELSE \E now \in clock..MaxClock :
            LET output == <<"wm-", Stamp(now), ".png">>
            IN /\ req' = [req EXCEPT ![r] =
                            [@ EXCEPT !.out = output, !.pc = "blur",
                                      !.calls = Append(@, Call("sharp", "blur", output))]]
               /\ clock' = now
  /\ UNCHANGED <<files, unlinkQ, nextUpload, crashed, qVars, payVars>>

\* lines 364-374: the blurred file is downloaded, or the catch block answers
\* 500 and unlinks nothing
WatermarkSharpDone(r, ok, leaves) ==
  /\ ~crashed
  /\ req[r].pc = "blur"
  /\ LET q == ToolRan(req[r], ok, leaves, req[r].out)
     IN /\ files' = FilesAfter(ok, leaves, q.out)
        /\ req' = [req EXCEPT ![r] =
                     IF ok THEN Download(q, q.out)
                     ELSE [Respond(q, 500) EXCEPT !.pc = "done"]]
  /\ UNCHANGED <<unlinkQ, clock, nextUpload, crashed, qVars, payVars>>

\* lines 331-345 and 378-386: the upload is handed to the remote API or to
\* the codec
RemoveBgOrResize(r) ==
  /\ ~crashed
  /\ req[r].pc = "handler" /\ req[r].ep \in {"remove-bg", "resize"}
  /\ req' = [req EXCEPT ![r] =
               IF Len(@.ups) = 0
               THEN [Respond(@, 400) EXCEPT !.pc = "done"]
               ELSE [@ EXCEPT !.pc = "await",
                              !.reading = @ \cup {req[r].ups[1].path},
                              !.calls = Append(@,
                                 Call(IF req[r].ep = "resize" THEN "sharp" ELSE "remove.bg",
                                      "", NoPath))]]
  /\ UNCHANGED <<files, unlinkQ, clock, nextUpload, crashed, qVars, payVars>>

\* lines 347-353 and 388-394: the result or a 500, then finally safeUnlink
RemoveBgOrResizeDone(r, ok) ==
  /\ ~crashed
  /\ req[r].pc = "await"
  /\ LET q == [req[r] EXCEPT !.toolFailed = ~ok, !.reading = {}]
         upload == q.ups[1].path
     IN /\ req' = [req EXCEPT ![r] =
                     [Respond(SafeUnlink(q, {upload}), IF ok THEN 200 ELSE 500)
                        EXCEPT !.pc = "done"]]
        /\ unlinkQ' = Issue(r, {upload})
  /\ UNCHANGED <<files, clock, nextUpload, crashed, qVars, payVars>>

-----------------------------------------------------------------------------
(* The tool endpoints, with requests in flight together *)

ConvertNames == {<<"a", ".png">>, <<"a", ".JPG">>, <<"a", ".mp4">>,
                 <<"a", ".docx">>, <<"b", ".docx">>, <<"a", ".exe">>}
Targets == {Absent, "png", "jpeg", "mp3", "pdf", "PDF"}
PdfLevels == {Absent, "low", "medium", "high", "max"}

ToolArrivals(r) ==
  \/ \E names \in SeqsUpTo({PlainName}, 1), level \in PdfLevels :
       Arrive(r, "pdf-compress", names, level)
  \/ \E names \in SeqsUpTo({PlainName}, 1) :
       Arrive(r, "pdf-compress-draft", names, Absent)
  \/ \E names \in SeqsUpTo(ConvertNames, 1), target \in Targets,
        ep \in {"file-convert", "file-convert-draft"} :
       Arrive(r, ep, names, target)
  \/ \E names \in SeqsUpTo({PlainName}, 1), ep \in {"watermark", "remove-bg", "resize"} :
       Arrive(r, ep, names, Absent)

Init == PipeInit(MaxReq)

Next ==
  \/ \E r \in Reqs : ToolArrivals(r)
  \/ \E r \in Reqs, p \in {x[2] : x \in unlinkQ} : UnlinkLands(r, p)
  \/ \E r \in Reqs : PdfCompress(r)
  \/ \E r \in Reqs, ok \in BOOLEAN, leaves \in BOOLEAN : PdfCompressGsDone(r, ok, leaves)
  \/ \E r \in Reqs : StreamOpen(r)
  \/ \E r \in Reqs : StreamEnd(r)
  \/ \E r \in Reqs : StreamClose(r)
  \/ \E r \in Reqs : PdfCompressDraft(r)
  \/ \E r \in Reqs, ok \in BOOLEAN, leaves \in BOOLEAN : PdfCompressDraftGsDone(r, ok, leaves)
  \/ \E r \in Reqs : FileConvert(r)
  \/ \E r \in Reqs : FileConvertDraft(r)
  \/ \E r \in Reqs, ok \in BOOLEAN : FileConvertSharpDone(r, ok)
  \/ \E r \in Reqs, ok \in BOOLEAN, leaves \in BOOLEAN : FileConvertFfmpegDone(r, ok, leaves)
  \/ \E r \in Reqs, ok \in BOOLEAN, leaves \in BOOLEAN : FileConvertSofficeDone(r, ok, leaves)
  \/ \E r \in Reqs : DownloadOpen(r)
  \/ \E r \in Reqs : DownloadDone(r)
  \/ \E r \in Reqs : Watermark(r)
  \/ \E r \in Reqs, ok \in BOOLEAN, leaves \in BOOLEAN : WatermarkSharpDone(r, ok, leaves)
  \/ \E r \in Reqs : RemoveBgOrResize(r)
  \/ \E r \in Reqs, ok \in BOOLEAN : RemoveBgOrResizeDone(r, ok)

Spec == Init /\ [][Next]_vars

-----------------------------------------------------------------------------
(* Claims about the temp-file pipeline *)

Uploads(q) == {q.ups[k].path : k \in 1..Len(q.ups)}

\* the response is complete and nothing the request scheduled is still to run
Quiescent(r) ==
  /\ req[r].resp = "complete"
  /\ req[r].pc = "done"
  /\ \A x \in unlinkQ : x[1] # r

\* the endpoints the cleanup claim names, each served by the handler the
\* claim cites
CleanupEndpoints ==
  {"image-compress", "file-compress", "pdf-compress", "file-convert",
   "watermark", "remove-bg", "resize"}

\* C1: once the response of a request to a file-handling endpoint is
\* complete and its cleanup has run, no file the request created (upload or
\* tool output) is left in the temp directory, whichever path was taken.
C1_NoTempFileOutlivesItsRequest ==
  \A r \in Reqs :
    (req[r].ep \in CleanupEndpoints /\ Quiescent(r)) =>
      req[r].created \cap files = {}

\* C2: no temp file has its deletion issued while a read of it that the same
\* request started is still pending or in progress.
C2_UnlinkOnlyAfterReads ==
  \A r \in Reqs :
    req[r].ep \in {"image-compress", "file-compress", "pdf-compress"} =>
      req[r].reading \cap req[r].del = {}

\* the name the claim gives a recompressed entry: <base>-compressed.<ext>
ClaimedNames(originalname) ==
  LET e == DropDot(ToLowerCase(Extname(originalname)))
  IN {<<originalname[1], "-compressed.", e>>,
      <<originalname[1], "-compressed.", IF e = "jpeg" THEN "jpg" ELSE e>>}

\* C3: when the response to an image-compress batch of N files with an
\* unprocessable file is complete, the archive holds exactly N entries: the
\* unprocessable file's own bytes under its original name and every other
\* file recompressed under <base>-compressed.<ext>.
C3_ArchiveHasEveryFile ==
  \A r \in Reqs :
    LET q == req[r]
    IN (/\ q.ep = "image-compress"
        /\ q.resp = "complete"
        /\ \E k \in 1..Len(q.entries) : q.entries[k].src = "file") =>
         /\ Len(q.entries) = Len(q.ups)
         /\ \A k \in 1..Len(q.entries) :
              /\ q.entries[k].st = "done"
              /\ \/ q.entries[k].src = "file" /\ q.entries[k].name = q.ups[k].name
                 \/ /\ q.entries[k].src = "buffer"
                    /\ q.entries[k].name \in ClaimedNames(q.ups[k].name)

\* the pairs the claim calls supported, whatever the case of either side
ClaimSupported(originalname, field) ==
  LET ext == DropDot(ToLowerCase(Extname(originalname)))
      target == IF field = Absent THEN "" ELSE ToLowerCase(field)
  IN \/ ext \in imageTypes /\ target \in imageTypes
     \/ ext \in avTypes /\ target \in avTypes
     \/ ext \in docTypes /\ target = "pdf"

\* C5: a file-convert request whose pair is not supported invokes no tool
\* and no codec, creates no output file, and is answered with a 400-class
\* response.
C5_UnsupportedPairRejected ==
  \A r \in Reqs :
    LET q == req[r]
    IN (/\ q.ep \in {"file-convert", "file-convert-draft"}
        /\ q.pc \notin {"new", "handler"}
        /\ Len(q.ups) = 1
        /\ q.field # Absent
        /\ ~ClaimSupported(q.ups[1].name, q.field)) =>
         /\ q.calls = <<>>
         /\ q.created = Uploads(q)
         /\ q.resp = "complete"
         /\ 400 <= q.status /\ q.status <= 499

\* C6: the distiller is invoked with /screen for level low, /ebook for
\* medium, /printer for high, and /ebook for an absent or any other level.
C6_PresetFollowsLevel ==
  \A r \in Reqs :
    (req[r].ep = "pdf-compress" /\ req[r].calls # <<>>) =>
      /\ req[r].calls[1].exe = "gs"
      /\ req[r].calls[1].arg =
           CASE req[r].field = "low" -> "/screen"
             [] req[r].field = "medium" -> "/ebook"
             [] req[r].field = "high" -> "/printer"
             [] OTHER -> "/ebook"

InFlight(r) ==
  \/ req[r].pc \notin {"new", "done"}
  \/ \E x \in unlinkQ : x[1] = r

\* C9: two requests in flight at the same time write, read and delete
\* disjoint sets of temp paths.
C9_PathsDisjoint ==
  \A r1, r2 \in Reqs :
    (/\ r1 # r2
     /\ {req[r1].ep, req[r2].ep} \subseteq {"pdf-compress", "file-convert"}
     /\ InFlight(r1) /\ InFlight(r2)) =>
      req[r1].touched \cap req[r2].touched = {}

\* C10: a request to pdf-compress or file-convert leaves no error unhandled,
\* ends with a complete response, and is answered 500 when its tool or codec
\* failed.
C10_FailuresIsolated ==
  \A r \in Reqs :
    req[r].ep \in {"image-compress", "file-compress", "pdf-compress", "file-convert"} =>
      /\ ~req[r].unhandled
      /\ req[r].pc = "done" => req[r].resp = "complete"
      /\ (req[r].toolFailed /\ req[r].resp = "complete") => req[r].status = 500

\* the branch the routing rule gives a pair, whatever the case of either side
ClaimedRoute(originalname, field) ==
  LET ext == DropDot(ToLowerCase(Extname(originalname)))
      target == IF field = Absent THEN "" ELSE ToLowerCase(field)
  IN IF ext \in imageTypes /\ target \in imageTypes THEN "image"
     ELSE IF ext \in avTypes /\ target \in avTypes THEN "av"
     ELSE IF ext \in docTypes /\ target = "pdf" THEN "doc"
     ELSE "unsupported"

\* C11: a file-convert request takes the branch of its (source extension,
\* target) pair, compared without regard to case: image to image runs the
\* codec and no external process, audio/video runs ffmpeg once, document to
\* pdf runs soffice once, and any other pair runs nothing.
C11_RoutedByPair ==
  \A r \in Reqs :
    LET q == req[r]
    IN (/\ q.ep \in {"file-convert", "file-convert-draft"}
        /\ q.pc \notin {"new", "handler"}
        /\ Len(q.ups) = 1
        /\ q.field # Absent) =>
         LET route == ClaimedRoute(q.ups[1].name, q.field)
         IN IF route = "unsupported"
            THEN q.calls = <<>>
            ELSE /\ Len(q.calls) = 1
                 /\ q.calls[1].exe =
                      CASE route = "image" -> "sharp"
                        [] route = "av" -> "ffmpeg"
                        [] route = "doc" -> "soffice"

\* C12: in the document to pdf branch of file-convert, once soffice has
\* succeeded the path the handler streams, and then deletes, is the path of
\* the file soffice wrote for this request.
C12_StreamsWhatSofficeWrote ==
  \A r \in Reqs :
    LET q == req[r]
    IN (/\ q.ep = "file-convert"
        /\ q.pc \in {"stream", "piping", "ended", "done"}
        /\ q.calls # <<>>
        /\ q.calls[1].exe = "soffice"
        /\ ~q.toolFailed) =>
         /\ q.created \ Uploads(q) = {q.out}
         /\ q.del \subseteq Uploads(q) \cup (q.created \ Uploads(q))

=============================================================================
